---- MODULE Spec2Model ----
(***************************************************************************)
(* The difference area chart visual (differenceAreaChart.ts): its geometry, *)
(* its view-model builder, its init/update/enumerate lifecycle, its d3     *)
(* data join on the chart group, and the hover handlers it registers on    *)
(* the plot overlay.                                                        *)
(*                                                                          *)
(* JavaScript values are records carrying a kind field, so that undefined, *)
(* numbers, arrays and objects can be compared with one another.  Array    *)
(* indices are the zero-based indices of the source.                       *)
(***************************************************************************)
EXTENDS Integers, Sequences, FiniteSets, TLC

VARIABLES
    inited,             \* init() has run: svg, chart and plotOverlay exist
    viewportNoMargins,  \* DifferenceAreaChartGeometry.viewportNoMargins
    viewModel,          \* DifferenceAreaChart.viewModel
    svgAttr,            \* width/height attributes of the svg element
    overlayAttr,        \* width/height attributes of plotOverlay
    chartGroups,        \* the g elements of the chart group, with their children
    hoverLines,         \* the .hover-line elements of the chart group
    hoverCircles,       \* the .hover-circle elements of the chart group
    handler,            \* the closures TooltipManager.addTooltip registered
    last,               \* the host's most recent call, its input and outcome
    lastBuild,          \* the dataView of the most recent completed build
    skipped,            \* the most recent update found no space to draw
    cvInput,            \* builder harness: the dataView under conversion
    cvResult            \* builder harness: convertToViewModel's outcome

vars == <<inited, viewportNoMargins, viewModel, svgAttr, overlayAttr, chartGroups,
          hoverLines, hoverCircles, handler, last, lastBuild, skipped, cvInput,
          cvResult>>

visualVars == <<inited, viewportNoMargins, viewModel, svgAttr, overlayAttr,
                chartGroups, hoverLines, hoverCircles, handler, last, lastBuild,
                skipped>>

(***************************************************************************)
(* Bounds of the model.                                                     *)
(***************************************************************************)
MaxCategories == 2      \* category values per category column: 0..MaxCategories
MaxSeries == 2          \* series groups of the value columns: 0..MaxSeries
MaxCategoryColumns == 2 \* category columns: 0..MaxCategoryColumns
MaxValue == 1           \* measure values: 0..MaxValue

(***************************************************************************)
(* JavaScript values.                                                       *)
(***************************************************************************)
Undefined == [kind |-> "undefined"]
Num(n) == [kind |-> "number", n |-> n]
Str(s) == [kind |-> "string", s |-> s]
TypeError == [kind |-> "throw", error |-> "TypeError"]

Truthy(v) == v.kind \notin {"undefined", "null"}

\* array[i] of JavaScript: undefined outside the array.
At(items, i) == IF i >= 0 /\ i < Len(items) THEN items[i + 1] ELSE Undefined

(***************************************************************************)
(* DifferenceAreaChartGeometry.                                             *)
(***************************************************************************)
MarginLeft == 45
MarginRight == 30
MarginBottom == 10
MarginTop == 10

margin == [left |-> MarginLeft, right |-> MarginRight,
           bottom |-> MarginBottom, top |-> MarginTop]

getViewportWithNoMargins(vp) == vp

getViewport(vp) ==
    [width |-> vp.width - margin.left - margin.right,
     height |-> vp.height - margin.top - margin.bottom]

\* isValid accepting a margin-adjusted dimension of zero.
isValid_AcceptsZero(vp) ==
    LET viewport == [width |-> vp.width - margin.left - margin.right,
                     height |-> vp.height - margin.top - margin.bottom]
    IN  viewport.width >= 0 /\ viewport.height >= 0

isValid(vp) ==
    LET viewport == getViewport(vp)
    IN  viewport.width > 0 /\ viewport.height > 0

(***************************************************************************)
(* Settings: defaults, the host's property store, parseSettings.            *)
(***************************************************************************)
getDefaultColorSettings == [highColor |-> "Green", lowColor |-> "Red"]

getDefaultOutlineSettings == [showOutline |-> TRUE, size |-> 2]

getDefaultChartSettings ==
    [outline |-> getDefaultOutlineSettings, colors |-> getDefaultColorSettings]

getObjectsFromDataView(dataView) ==
    IF Truthy(dataView) /\ Truthy(dataView.metadata)
    THEN dataView.metadata.objects
    ELSE Undefined

\* DataViewObjects.getValue: the stored property, or the default when the
\* store, the object or the property is absent.
DataViewObjectsGetValue(objects, objectName, propertyName, defaultValue) ==
    IF ~Truthy(objects) THEN defaultValue
    ELSE IF objectName \notin DOMAIN objects.map THEN defaultValue
    ELSE IF propertyName \notin DOMAIN objects.map[objectName] THEN defaultValue
    ELSE objects.map[objectName][propertyName]

\* DataViewObjects.getFillColor: the solid colour of the stored fill.
DataViewObjectsGetFillColor(objects, objectName, propertyName, defaultColor) ==
    LET value == DataViewObjectsGetValue(objects, objectName, propertyName, Undefined)
    IN  IF ~Truthy(value) THEN defaultColor
        ELSE IF ~Truthy(value.solid) THEN defaultColor
        ELSE value.solid.color

\* parseSettings never reading the outline size from the property store.
parseSettings_DefaultSize(dataView) ==
    LET defaultSettings == getDefaultChartSettings
        objects == getObjectsFromDataView(dataView)
    IN  IF Truthy(objects)
        THEN [outline |->
                [showOutline |-> DataViewObjectsGetValue(objects, "outline", "show",
                                     defaultSettings.outline.showOutline),
                 size |-> defaultSettings.outline.size],
              colors |->
                [highColor |-> DataViewObjectsGetFillColor(objects, "colors", "highColor",
                                     defaultSettings.colors.highColor),
                 lowColor |-> DataViewObjectsGetFillColor(objects, "colors", "lowColor",
                                     defaultSettings.colors.lowColor)]]
        ELSE defaultSettings

parseSettings(dataView) ==
    LET defaultSettings == getDefaultChartSettings
        objects == getObjectsFromDataView(dataView)
    IN  IF Truthy(objects)
        THEN [outline |->
                [showOutline |-> DataViewObjectsGetValue(objects, "outline", "show",
                                     defaultSettings.outline.showOutline),
                 size |-> DataViewObjectsGetValue(objects, "outline", "size",
                                     defaultSettings.outline.size)],
              colors |->
                [highColor |-> DataViewObjectsGetFillColor(objects, "colors", "highColor",
                                     defaultSettings.colors.highColor),
                 lowColor |-> DataViewObjectsGetFillColor(objects, "colors", "lowColor",
                                     defaultSettings.colors.lowColor)]]
        ELSE defaultSettings

(***************************************************************************)
(* The view-model builder.                                                  *)
(***************************************************************************)
\* isDataViewValid without its test of the values section.
isDataViewValid_NoValuesTest(dataView) ==
    /\ Truthy(dataView)
    /\ Truthy(dataView.categorical)
    /\ Truthy(dataView.categorical.categories)
    /\ Truthy(dataView.metadata)
    /\ Truthy(At(dataView.categorical.categories.items, 0))

isDataViewValid(dataView) ==
    /\ Truthy(dataView)
    /\ Truthy(dataView.categorical)
    /\ Truthy(dataView.categorical.categories)
    /\ Truthy(dataView.metadata)
    /\ Truthy(At(dataView.categorical.categories.items, 0))
    /\ Truthy(dataView.categorical.values)

\* DataRoleHelper.hasRole on a value column.
hasRole(column, roleName) == Truthy(column) /\ column.role = roleName

\* DataRoleHelper.getMeasureIndexOfRole: the index, in the first group, of
\* the first column carrying the role; -1 when there is none.
getMeasureIndexOfRole(grouped, roleName) ==
    IF Len(grouped) = 0 THEN -1
    ELSE LET firstGroup == grouped[1]
             found == {i \in 0..(Len(firstGroup.values) - 1) :
                          hasRole(firstGroup.values[i + 1], roleName)}
         IN  IF found = {} THEN -1
             ELSE CHOOSE i \in found : \A j \in found : i <= j

\* valueFormatter.format(null): the label of the synthetic category.
BlankLabel == Str("(Blank)")

\* TooltipBuilder.createTooltipInfo: the category label paired with the two
\* formatted measure values.
createTooltipInfo(categoryValue, lowValue, highValue) ==
    [category |-> categoryValue, low |-> lowValue, high |-> highValue]

\* The body of the inner loop of parseToDataPoints for one category position.
dataPointAt(categories, seriesValues, lowMeasureIndex, highMeasureIndex, categoryIndex) ==
    LET categoryValue == At(categories.values, categoryIndex)
        lowMeasure == At(seriesValues, lowMeasureIndex)
        highMeasure == At(seriesValues, highMeasureIndex)
        lowValue == IF Truthy(lowMeasure) /\ Truthy(lowMeasure.values)
                    THEN At(lowMeasure.values.items, categoryIndex)
                    ELSE Num(0)
        highValue == IF Truthy(highMeasure) /\ Truthy(highMeasure.values)
                     THEN At(highMeasure.values.items, categoryIndex)
                     ELSE Num(0)
    IN  IF ~Truthy(lowMeasure)
        THEN TypeError      \* lowMeasure.source.format, line 396
        ELSE [kind |-> "dataPoint",
              low |-> lowValue,
              high |-> highValue,
              categoryValue |-> categoryValue,
              categoryIndex |-> categoryIndex,
              tooltipInfo |-> createTooltipInfo(categoryValue, lowValue, highValue)]

RECURSIVE categoryLoop(_, _, _, _, _, _, _)
categoryLoop(categories, seriesValues, lowMeasureIndex, highMeasureIndex, length, categoryIndex, dataPoints) ==
    IF categoryIndex >= length THEN [kind |-> "array", items |-> dataPoints]
    ELSE LET dataPoint == dataPointAt(categories, seriesValues, lowMeasureIndex,
                                      highMeasureIndex, categoryIndex)
         IN  IF dataPoint.kind = "throw" THEN dataPoint
             ELSE categoryLoop(categories, seriesValues, lowMeasureIndex,
                               highMeasureIndex, length, categoryIndex + 1,
                               Append(dataPoints, dataPoint))

RECURSIVE seriesLoop(_, _, _, _, _, _, _)
seriesLoop(dataViewCategorical, categories, grouped, lowMeasureIndex, highMeasureIndex, seriesIndex, dataPoints) ==
    IF seriesIndex >= Len(grouped) THEN [kind |-> "array", items |-> dataPoints]
    ELSE LET column == IF Truthy(dataViewCategorical.categories)
                       THEN At(dataViewCategorical.categories.items, seriesIndex)
                       ELSE Undefined
         IN  IF ~Truthy(column)
             THEN TypeError \* dataViewCategorical.categories[seriesIndex].values, line 383
             ELSE LET inner == categoryLoop(categories, grouped[seriesIndex + 1].values,
                                            lowMeasureIndex, highMeasureIndex,
                                            Len(column.values), 0, dataPoints)
                  IN  IF inner.kind = "throw" THEN inner
                      ELSE seriesLoop(dataViewCategorical, categories, grouped,
                                      lowMeasureIndex, highMeasureIndex,
                                      seriesIndex + 1, inner.items)

\* parseToDataPoints entering its loops as soon as one of the two roles is found.
parseToDataPoints_EitherRole(dataViewCategorical) ==
    LET categories ==
            IF Truthy(dataViewCategorical.categories)
               /\ Len(dataViewCategorical.categories.items) > 0
            THEN dataViewCategorical.categories.items[1]
            ELSE [kind |-> "categoryColumn", values |-> <<BlankLabel>>, identity |-> FALSE]
        grouped == IF Truthy(dataViewCategorical.values)
                   THEN dataViewCategorical.values.grouped
                   ELSE <<>>
        lowMeasureIndex == getMeasureIndexOfRole(grouped, "Low")
        highMeasureIndex == getMeasureIndexOfRole(grouped, "High")
    IN  IF lowMeasureIndex >= 0 \/ highMeasureIndex >= 0
        THEN seriesLoop(dataViewCategorical, categories, grouped, lowMeasureIndex,
                        highMeasureIndex, 0, <<>>)
        ELSE [kind |-> "array", items |-> <<>>]

parseToDataPoints(dataViewCategorical) ==
    LET categories ==
            IF Truthy(dataViewCategorical.categories)
               /\ Len(dataViewCategorical.categories.items) > 0
            THEN dataViewCategorical.categories.items[1]
            ELSE [kind |-> "categoryColumn", values |-> <<BlankLabel>>, identity |-> FALSE]
        grouped == IF Truthy(dataViewCategorical.values)
                   THEN dataViewCategorical.values.grouped
                   ELSE <<>>
        lowMeasureIndex == getMeasureIndexOfRole(grouped, "Low")
        highMeasureIndex == getMeasureIndexOfRole(grouped, "High")
    IN  IF lowMeasureIndex >= 0 /\ highMeasureIndex >= 0
        THEN seriesLoop(dataViewCategorical, categories, grouped, lowMeasureIndex,
                        highMeasureIndex, 0, <<>>)
        ELSE [kind |-> "array", items |-> <<>>]

\* The outcome of convertToViewModel: undefined, a view model, or the error
\* parseToDataPoints raised.
convertToViewModel(dataView) ==
    IF ~Truthy(dataView) THEN Undefined
    ELSE IF ~isDataViewValid(dataView) THEN Undefined
    ELSE LET settings == parseSettings(dataView)
             selector == IF dataView.categorical.categories.items[1].identity
                         THEN "withId" ELSE "null"
             data == parseToDataPoints(dataView.categorical)
         IN  IF data.kind = "throw" THEN data
             ELSE [kind |-> "viewModel", data |-> data.items,
                   settings |-> settings, selector |-> selector]

(***************************************************************************)
(* The host's datasets.                                                     *)
(***************************************************************************)
Labels == <<"A", "B", "C", "D", "E", "F">>

CategoryColumn(n, identity) ==
    [kind |-> "categoryColumn",
     values |-> [i \in 1..n |-> Str(Labels[i])],
     identity |-> identity]

\* A value column of n values; the Low measure runs 0, 1, ... and the other
\* columns hold MaxValue throughout.
ValueColumn(role, n, hasValues) ==
    [kind |-> "column",
     role |-> role,
     values |-> IF hasValues
                THEN [kind |-> "array",
                      items |-> [i \in 1..n |->
                                    IF role = "Low" THEN Num((i - 1) % (MaxValue + 1))
                                    ELSE Num(MaxValue)]]
                ELSE Undefined]

\* The column layouts of one series group, by role.
Layouts ==
    { <<"Low", "High">>, <<"High", "Low">>, <<"Other", "Low", "High">>,
      <<"Low">>, <<"High">>, <<"Other">>, <<>> }

Group(layout, n, hasValues) ==
    [values |-> [i \in 1..Len(layout) |-> ValueColumn(layout[i], n, hasValues)]]

SeqsUpTo(S, n) == UNION {[1..k -> S] : k \in 0..n}

DataView(categoryColumns, grouped, objects) ==
    [kind |-> "dataView",
     categorical |-> [kind |-> "categorical",
                      categories |-> [kind |-> "array", items |-> categoryColumns],
                      values |-> [kind |-> "values", grouped |-> grouped]],
     metadata |-> [kind |-> "metadata", objects |-> objects]]

\* The ways a dataset can be structurally invalid.
InvalidDataViews ==
    LET dv == DataView(<<CategoryColumn(1, TRUE)>>, <<Group(<<"Low", "High">>, 1, TRUE)>>,
                       Undefined)
    IN  { [dv EXCEPT !.categorical = Undefined],
          [dv EXCEPT !.categorical.categories = Undefined],
          [dv EXCEPT !.categorical.categories.items = <<>>],
          [dv EXCEPT !.metadata = Undefined],
          [dv EXCEPT !.categorical.values = Undefined] }

\* The datasets of the builder harness: every combination of category
\* columns and series groups within the bounds.
BuilderDataViews ==
    { DataView([i \in 1..Len(lens) |-> CategoryColumn(lens[i], identity)],
               [g \in 1..Len(layouts) |->
                    Group(layouts[g], IF Len(lens) > 0 THEN lens[1] ELSE 0, TRUE)],
               Undefined) :
        lens \in SeqsUpTo(0..MaxCategories, MaxCategoryColumns),
        layouts \in SeqsUpTo(Layouts, MaxSeries),
        identity \in BOOLEAN }
    \cup { DataView(<<CategoryColumn(n, TRUE)>>, <<Group(layout, n, FALSE)>>, Undefined) :
                n \in 0..MaxCategories, layout \in Layouts }
    \cup InvalidDataViews \cup {Undefined}

(***************************************************************************)
(* The builder harness: convertToViewModel applied to one dataset at a     *)
(* time.                                                                    *)
(***************************************************************************)
Pending == [kind |-> "pending"]

VisualInitial ==
    /\ inited = FALSE
    /\ viewportNoMargins = [width |-> 0, height |-> 0]
    /\ viewModel = Undefined
    /\ svgAttr = Undefined
    /\ overlayAttr = Undefined
    /\ chartGroups = <<>>
    /\ hoverLines = <<>>
    /\ hoverCircles = <<>>
    /\ handler = Undefined
    /\ last = [op |-> "constructor"]
    /\ lastBuild = Undefined
    /\ skipped = FALSE

BuilderInit ==
    /\ VisualInitial
    /\ cvInput \in BuilderDataViews
    /\ cvResult = Pending

Convert ==
    /\ cvResult = Pending
    /\ cvResult' = convertToViewModel(cvInput)
    /\ UNCHANGED <<cvInput, visualVars>>

BuilderNext == Convert

SpecBuilder == BuilderInit /\ [][BuilderNext]_vars

(***************************************************************************)
(* The DOM of the visual.  An element is a record of its tag, id, class,   *)
(* attributes and styles; an attribute never set is Undefined.  The d      *)
(* attribute of a path is kept as the generator's inputs: the shape, the   *)
(* bound data and the viewport the scales were built from.                 *)
(***************************************************************************)
AlmostZero == "0.000001"    \* SVGUtil.AlmostZero

uniqueVisualId == "1"       \* _.uniqueId() at construction

Element(tag) ==
    [kind |-> "element", tag |-> tag, id |-> Undefined, class |-> Undefined,
     d |-> Undefined, clipPath |-> Undefined, fill |-> Undefined,
     stroke |-> Undefined, strokeWidth |-> Undefined, opacity |-> Undefined,
     paths |-> <<>>]

PathData(shape, data, viewport) ==
    [kind |-> "d", shape |-> shape, data |-> data,
     width |-> viewport.width, height |-> viewport.height]

\* selection.select(selector) inside the group: the index of the first child
\* the selector matches, 0 when there is none.
SelectIndex(children, attribute, value) ==
    LET found == {i \in 1..Len(children) : children[i][attribute] = Str(value)}
    IN  IF found = {} THEN 0 ELSE CHOOSE i \in found : \A j \in found : i <= j

\* The chained attr, style and classed calls on one element, given as the
\* attributes they set, and the path an append('path') adds under a clipPath.
Changed(element, set, path) ==
    [a \in DOMAIN element |->
        IF a \in DOMAIN set THEN set[a]
        ELSE IF a = "paths" /\ Truthy(path) THEN Append(element.paths, path)
        ELSE element[a]]

\* selectorDelegate(name, selector) followed by the chained calls: with the
\* delegate of an entered group the element is appended, with the delegate of
\* an existing group it is selected, and an empty selection leaves the group
\* as it is.
\* selectorDelegate appending the element whenever the selection is empty.
withElement_AppendWhenMissing(delegate, children, name, attribute, value, set, path) ==
    IF delegate = "append" THEN Append(children, Changed(Element(name), set, path))
    ELSE IF delegate = "select"
    THEN LET i == SelectIndex(children, attribute, value)
         IN  IF i = 0 THEN Append(children, Changed(Element(name), set, path))
             ELSE [children EXCEPT ![i] = Changed(children[i], set, path)]
    ELSE children

withElement(delegate, children, name, attribute, value, set, path) ==
    IF delegate = "append" THEN Append(children, Changed(Element(name), set, path))
    ELSE IF delegate = "select"
    THEN LET i == SelectIndex(children, attribute, value)
         IN  IF i = 0 THEN children
             ELSE [children EXCEPT ![i] = Changed(children[i], set, path)]
    ELSE children

renderPlotArea(delegate, children, model, viewport) ==
    LET data == model.data
        belowId == "clip-below-" \o uniqueVisualId
        aboveId == "clip-above-" \o uniqueVisualId
        areaBetweenHighAndLow == PathData("areaBetweenHighAndLow", data, viewport)
        c1 == withElement(delegate, children, "clipPath", "id", belowId,
                  [id |-> Str(belowId)], PathData("areaBelowLowLine", data, viewport))
        c2 == withElement(delegate, c1, "clipPath", "id", aboveId,
                  [id |-> Str(aboveId)], PathData("areaAboveLowLine", data, viewport))
        c3 == withElement(delegate, c2, "path", "class", "area-above",
                  [class |-> Str("area-above"),
                   clipPath |-> Str(aboveId),
                   fill |-> Str(model.settings.colors.highColor),
                   d |-> areaBetweenHighAndLow], Undefined)
        c4 == withElement(delegate, c3, "path", "class", "area-below",
                  [class |-> Str("area-below"),
                   clipPath |-> Str(belowId),
                   fill |-> Str(model.settings.colors.lowColor),
                   d |-> areaBetweenHighAndLow], Undefined)
    IN  IF model.settings.outline.showOutline
        THEN LET c5 == withElement(delegate, c4, "path", "class", "outline-low",
                           [class |-> Str("outline-low"),
                            d |-> PathData("lowLine", data, viewport),
                            strokeWidth |-> Num(model.settings.outline.size),
                            fill |-> Str("none"),
                            stroke |-> Str(model.settings.colors.lowColor),
                            opacity |-> Str("1")], Undefined)
             IN  withElement(delegate, c5, "path", "class", "outline-high",
                     [class |-> Str("outline-high"),
                      d |-> PathData("highLine", data, viewport),
                      strokeWidth |-> Num(model.settings.outline.size),
                      fill |-> Str("none"),
                      stroke |-> Str(model.settings.colors.highColor),
                      opacity |-> Str("1")], Undefined)
        ELSE \* hide the outlines if they are switched off
             LET c5 == withElement(delegate, c4, "path", "class", "outline-low",
                           [opacity |-> Str(AlmostZero)], Undefined)
             IN  withElement(delegate, c5, "path", "class", "outline-high",
                     [opacity |-> Str(AlmostZero)], Undefined)

\* The data array bound with one datum for every point.
boundData_PerPoint(data) == [i \in 1..Len(data) |-> <<data[i]>>]

\* The data array render binds to the g elements: the whole data sequence
\* as the one datum, and no datum for an empty sequence.
boundData(data) == IF Len(data) > 0 THEN <<data>> ELSE data

\* render leaving the paths of earlier renders under the clip paths.
removeClipPathPaths_Keep(children) == children

\* this.chart.selectAll('clipPath > path').remove()
removeClipPathPaths(children) ==
    [i \in 1..Len(children) |->
        IF children[i].tag = "clipPath" THEN [children[i] EXCEPT !.paths = <<>>]
        ELSE children[i]]

\* The g elements of the chart group after a render that only draws
\* through the enter selection: a group that exists is bound to the new data
\* and not redrawn.
renderContainer_EnterOnly(groups, model, viewport) ==
    LET bound == boundData(model.data)
    IN  [i \in 1..Len(bound) |->
            IF i <= Len(groups) THEN [groups[i] EXCEPT !.data = bound[i]]
            ELSE [kind |-> "g", data |-> bound[i],
                  children |-> renderPlotArea("append", <<>>, model, viewport)]]

\* The data join of render on the g elements of the chart group,
\* this.chart.selectAll('g').data(...): a group that exists is bound to the
\* datum at its index, enter().append('g') adds a group for every further
\* datum, boundChartGroup.each redraws every bound group (the entered ones
\* among them) through select, the drawing through gEnter.append fills the
\* entered groups, and exit().remove() drops the groups left without a datum.
renderContainer(groups, model, viewport) ==
    LET bound == boundData(model.data)
    IN  [i \in 1..Len(bound) |->
            LET entered == i > Len(groups)
                group == IF entered
                         THEN [kind |-> "g", data |-> bound[i], children |-> <<>>]
                         ELSE [groups[i] EXCEPT !.data = bound[i]]
                selected == renderPlotArea("select", removeClipPathPaths(group.children),
                                           model, viewport)
                appended == renderPlotArea(IF entered THEN "append" ELSE "none",
                                           selected, model, viewport)
            IN  [group EXCEPT !.children = appended]]

\* The container: the first g element of the chart group, if there is one.
container == At(chartGroups, 0)

\* What TooltipManager.addTooltip binds to the overlay: tooltipInfoDelegate
\* and onMouseMoveOutDelegate with the view model and scales they close over.
Handlers(model, viewport) ==
    [kind |-> "handlers", viewModel |-> model,
     width |-> viewport.width, height |-> viewport.height,
     current |-> TRUE]

Size(width, height) == [kind |-> "size", width |-> width, height |-> height]

(***************************************************************************)
(* The lifecycle: init, update, enumerateObjectInstances.                   *)
(***************************************************************************)
init(viewport) ==
    /\ ~inited
    /\ inited' = TRUE
    /\ viewportNoMargins' = viewport
    /\ last' = [op |-> "init", viewport |-> viewport, outcome |-> "return"]
    /\ UNCHANGED <<viewModel, svgAttr, overlayAttr, chartGroups, hoverLines,
                   hoverCircles, handler, lastBuild, skipped, cvInput, cvResult>>

\* cleanPlotArea: this.chart.selectAll('*').remove()
cleanPlotArea ==
    [chartGroups |-> <<>>, hoverLines |-> <<>>, hoverCircles |-> <<>>]

\* The record of one update call: its options, whether it returned or threw,
\* and whether the update before it found no space to draw.
UpdateCall(options, outcome) ==
    [op |-> "update", options |-> options, outcome |-> outcome, afterSkip |-> skipped]

\* The handlers stay bound to the overlay when update replaces the view
\* model without rendering; their view model is then no longer the current one.
keepHandlers == IF Truthy(handler) THEN [handler EXCEPT !.current = FALSE] ELSE handler

\* update(options), with updateChartSize and render.
update(options) ==
    /\ inited
    /\ UNCHANGED <<inited, cvInput, cvResult>>
    /\ IF ~Truthy(options.dataViews)
       THEN \* !options.dataViews && !options.dataViews[0] reads [0] of undefined
            /\ last' = UpdateCall(options, "throw")
            /\ UNCHANGED <<viewportNoMargins, viewModel, svgAttr, overlayAttr,
                           chartGroups, hoverLines, hoverCircles, handler, lastBuild,
                           skipped>>
       ELSE LET dataView == At(options.dataViews.items, 0)
                valid == isValid(options.viewport)
                converted == convertToViewModel(dataView)
            IN  /\ viewportNoMargins' = options.viewport
                \* updateChartSize
                /\ svgAttr' = IF valid
                              THEN Size(getViewportWithNoMargins(options.viewport).width,
                                        getViewportWithNoMargins(options.viewport).height)
                              ELSE svgAttr
                /\ overlayAttr' = IF valid
                                  THEN Size(getViewport(options.viewport).width,
                                            getViewport(options.viewport).height)
                                  ELSE overlayAttr
                /\ IF converted.kind = "throw"
                   THEN /\ last' = UpdateCall(options, "throw")
                        /\ UNCHANGED <<viewModel, chartGroups, hoverLines, hoverCircles,
                                       handler, lastBuild, skipped>>
                   ELSE /\ last' = UpdateCall(options, "return")
                        /\ viewModel' = converted
                        /\ lastBuild' = dataView
                        /\ skipped' = (Truthy(converted) /\ ~valid)
                        /\ IF Truthy(converted)
                           THEN IF valid
                                THEN \* render
                                     /\ chartGroups' = renderContainer(chartGroups, converted,
                                                         getViewport(options.viewport))
                                     /\ handler' = Handlers(converted,
                                                         getViewport(options.viewport))
                                     /\ UNCHANGED <<hoverLines, hoverCircles>>
                                ELSE \* render returns: not enough space to draw
                                     /\ handler' = keepHandlers
                                     /\ UNCHANGED <<chartGroups, hoverLines, hoverCircles>>
                           ELSE /\ chartGroups' = cleanPlotArea.chartGroups
                                /\ hoverLines' = cleanPlotArea.hoverLines
                                /\ hoverCircles' = cleanPlotArea.hoverCircles
                                /\ handler' = keepHandlers

enumerateOutlineOptions(model) ==
    [kind |-> "array",
     items |-> << [selector |-> "null", objectName |-> "outline",
                   properties |-> [show |-> model.settings.outline.showOutline,
                                   size |-> model.settings.outline.size]] >>]

enumerateColorOptions(model) ==
    [kind |-> "array",
     items |-> << [selector |-> "null", objectName |-> "colors",
                   properties |-> [lowColor |-> model.settings.colors.lowColor,
                                   highColor |-> model.settings.colors.highColor]] >>]

\* enumerateObjectInstances answering every unknown name with the outline.
enumerateObjectInstances_Default(objectName) ==
    IF ~Truthy(viewModel) THEN Undefined
    ELSE IF objectName = "colors" THEN enumerateColorOptions(viewModel)
    ELSE enumerateOutlineOptions(viewModel)

enumerateObjectInstances(objectName) ==
    LET data == viewModel
    IN  IF ~Truthy(data) THEN Undefined
        ELSE IF objectName = "outline" THEN enumerateOutlineOptions(data)
        ELSE IF objectName = "colors" THEN enumerateColorOptions(data)
        ELSE Undefined

enumerate(objectName) ==
    /\ last' = [op |-> "enumerateObjectInstances", objectName |-> objectName,
                outcome |-> "return", result |-> enumerateObjectInstances(objectName)]
    /\ UNCHANGED <<inited, viewportNoMargins, viewModel, svgAttr, overlayAttr,
                   chartGroups, hoverLines, hoverCircles, handler, lastBuild, skipped,
                   cvInput, cvResult>>

(***************************************************************************)
(* Hover: the handlers bound to the overlay.  Coordinates and positions of *)
(* the x axis' domain are rationals num/den with den > 0.                  *)
(***************************************************************************)
HoverCircleRadius == 3

Rational(num, den) == [num |-> num, den |-> den]

\* d3.scale.linear().domain([0, data.length - 1]).range([0, width])
linearScale(domainEnd, rangeEnd) == [domain |-> <<0, domainEnd>>, range |-> <<0, rangeEnd>>]

\* AxisHelper.invertScale on a linear scale: scale.invert(x).
invertScale(scale, x) ==
    Rational(scale.domain[1] * x.den * (scale.range[2] - scale.range[1])
                 + (scale.domain[2] - scale.domain[1]) * (x.num - scale.range[1] * x.den),
             x.den * (scale.range[2] - scale.range[1]))

\* The coordinate divided by the transform scale ratio of the chart node
\* when that ratio is not 1, then inverted through the x scale.
getXFromCoordinate(coordinateX, ratiosX, xScale) ==
    invertScale(xScale, IF ratiosX # 1 THEN Rational(coordinateX, ratiosX)
                        ELSE Rational(coordinateX, 1))

\* Math.floor in the place of Math.round.
MathRound_Floor(x) == x.num \div x.den

\* Math.round: the nearest integer, halves towards plus infinity.
MathRound(x) == (2 * x.num + x.den) \div (2 * x.den)

getClosestDataPoint(xIndex, points) ==
    LET closestValueCatIndex == MathRound(xIndex)
    IN  At(points, closestValueCatIndex)

\* Array.prototype.indexOf of a point found in the handler's own data: its
\* index when that array is still this.viewModel.data, -1 when update has
\* replaced the view model since (the points are compared by identity).
indexOf(index) == IF handler.current THEN index ELSE -1

\* drawHoverLine drawing a further line at every call instead of joining.
drawHoverLine_AlwaysAppend(lines, dataPoint, drawAtX) ==
    Append(lines,
           [kind |-> "line", class |-> Str("hover-line"), drawAtX |-> drawAtX,
            width |-> handler.width, height |-> handler.height,
            points |-> Len(handler.viewModel.data),
            y1 |-> dataPoint.high, y2 |-> dataPoint.low, opacity |-> Str("1")])

\* drawHoverLine: the .hover-line elements after the join with
\* dataPoint ? [dataPoint] : [].  A line that exists is kept for the datum at
\* its index, enter().append('line') adds one for a further datum, the
\* attributes and the opacity are set on all of them, and exit().remove()
\* drops the lines left without a datum.  width, height and points stand for
\* the x and y scales the positions are computed with.
drawHoverLine(lines, dataPoint, drawAtX) ==
    LET bound == IF Truthy(dataPoint) THEN <<dataPoint>> ELSE <<>>
    IN  [i \in 1..Len(bound) |->
            LET line == IF i <= Len(lines) THEN lines[i]
                        ELSE [kind |-> "line", class |-> Str("hover-line"),
                              drawAtX |-> Undefined, width |-> Undefined,
                              height |-> Undefined, points |-> Undefined,
                              y1 |-> Undefined, y2 |-> Undefined, opacity |-> Undefined]
            IN  [line EXCEPT !.drawAtX = drawAtX,
                             !.width = handler.width,
                             !.height = handler.height,
                             !.points = Len(handler.viewModel.data),
                             !.y1 = bound[i].high,
                             !.y2 = bound[i].low,
                             !.opacity = Str("1")]]

drawHoverLineDataPoints(chartColors, dataPoint, drawAtX) ==
    LET high == IF dataPoint.high.kind \notin {"undefined", "null"}
                THEN << [categoryIndex |-> drawAtX, color |-> chartColors.highColor,
                         value |-> dataPoint.high] >>
                ELSE <<>>
        low == IF dataPoint.low.kind \notin {"undefined", "null"}
               THEN << [categoryIndex |-> drawAtX, color |-> chartColors.lowColor,
                        value |-> dataPoint.low] >>
               ELSE <<>>
        points == high \o low
    IN  [i \in 1..Len(points) |->
            [kind |-> "circle", class |-> Str("hover-circle"),
             cx |-> points[i].categoryIndex, cy |-> points[i].value,
             r |-> HoverCircleRadius, fill |-> Str(points[i].color)]]

\* The hover line: the first .hover-line element of the chart group, if
\* there is one.
hoverLine == At(hoverLines, 0)

\* tooltipInfoDelegate, run by the overlay's pointer-move.
tooltipInfoDelegate(coordinateX, ratiosX) ==
    LET xScale == linearScale(Len(handler.viewModel.data) - 1, handler.width)
        xIndex == getXFromCoordinate(coordinateX, ratiosX, xScale)
        dataPoint == getClosestDataPoint(xIndex, handler.viewModel.data)
        Event(outcome, result) ==
            [op |-> "mousemove", coordinateX |-> coordinateX, ratiosX |-> ratiosX,
             closest |-> dataPoint, outcome |-> outcome, result |-> result]
    IN  /\ Truthy(handler)
        /\ UNCHANGED <<inited, viewportNoMargins, viewModel, svgAttr, overlayAttr,
                       chartGroups, handler, lastBuild, skipped, cvInput, cvResult>>
        /\ IF ~Truthy(dataPoint)
           THEN /\ last' = Event("return", Undefined)
                /\ UNCHANGED <<hoverLines, hoverCircles>>
           ELSE IF ~Truthy(viewModel)
           THEN \* this.viewModel.data of an undefined view model
                /\ last' = Event("throw", TypeError)
                /\ UNCHANGED <<hoverLines, hoverCircles>>
           ELSE LET drawAtX == indexOf(MathRound(xIndex))
                IN  /\ hoverLines' = drawHoverLine(hoverLines, dataPoint, drawAtX)
                    /\ hoverCircles' = drawHoverLineDataPoints(viewModel.settings.colors,
                                                               dataPoint, drawAtX)
                    /\ last' = Event("return", dataPoint.tooltipInfo)

\* onMouseMoveOutDelegate, run by the overlay's pointer-leave.
onMouseMoveOutDelegate ==
    /\ Truthy(handler)
    /\ hoverLines' = [i \in 1..Len(hoverLines) |->
                          [hoverLines[i] EXCEPT !.opacity = Str(AlmostZero)]]
    /\ hoverCircles' = <<>>
    /\ last' = [op |-> "mouseout", outcome |-> "return"]
    /\ UNCHANGED <<inited, viewportNoMargins, viewModel, svgAttr, overlayAttr,
                   chartGroups, handler, lastBuild, skipped, cvInput, cvResult>>

(***************************************************************************)
(* The host: the viewports, datasets and pointer events it hands over.      *)
(***************************************************************************)
\* The viewport whose margin-adjusted size is width x height.
Viewport(width, height) ==
    [width |-> width + MarginLeft + MarginRight,
     height |-> height + MarginTop + MarginBottom]

Fill(color) == [kind |-> "fill", solid |-> [kind |-> "solid", color |-> color]]

Objects(map) == [kind |-> "objects", map |-> map]

Array(items) == [kind |-> "array", items |-> items]

Options(dataViews, viewport) == [dataViews |-> dataViews, viewport |-> viewport]

\* One category column, one series group with a Low and a High measure.
ChartDataView(n, objects) ==
    DataView(<<CategoryColumn(n, TRUE)>>, <<Group(<<"Low", "High">>, n, TRUE)>>, objects)

Stores ==
    { Undefined,
      Objects([outline |-> [show |-> FALSE]]),
      Objects([outline |-> [size |-> 5],
               colors |-> [highColor |-> Fill("Blue"), lowColor |-> Fill("Orange")]]) }

Viewports == { Viewport(4, 4), Viewport(8, 4), Viewport(0, 4) }

DataViews ==
    { ChartDataView(n, Undefined) : n \in 0..MaxCategories }
    \cup { ChartDataView(1, objects) : objects \in Stores }
    \cup { DataView(<<CategoryColumn(MaxCategories, TRUE)>>,
                    <<Group(<<"Low">>, MaxCategories, TRUE)>>, Undefined),
           DataView(<<CategoryColumn(1, TRUE)>>,
                    <<Group(<<"Low", "High">>, 1, TRUE), Group(<<"Low", "High">>, 1, TRUE)>>,
                    Undefined) }
    \cup InvalidDataViews

UpdateOptions ==
    { Options(dataViews, viewport) :
        dataViews \in {Undefined, Array(<<>>)} \cup {Array(<<dv>>) : dv \in DataViews},
        viewport \in Viewports }

ObjectNames == {"outline", "colors", "general"}

PointerXs == {-3, -1, 0, 1, 2, 3, 5, 6, 8, 9}

TransformRatios == {1, 2}

Init ==
    /\ VisualInitial
    /\ cvInput = Undefined
    /\ cvResult = Pending

VisualInit == \E viewport \in Viewports : init(viewport)

Update == \E options \in UpdateOptions : update(options)

Enumerate == \E objectName \in ObjectNames : enumerate(objectName)

MouseMove ==
    \E coordinateX \in PointerXs, ratiosX \in TransformRatios :
        tooltipInfoDelegate(coordinateX, ratiosX)

MouseOut == onMouseMoveOutDelegate

Next == VisualInit \/ Update \/ Enumerate

Spec == Init /\ [][Next]_vars

(***************************************************************************)
(* The hover specification: updates that change the number of points, the  *)
(* viewport and the validity of the dataset, with the pointer events of    *)
(* the overlay in between.                                                  *)
(***************************************************************************)
HoverOptions ==
    { Options(dataViews, viewport) :
        dataViews \in {Array(<<>>)}
                      \cup {Array(<<ChartDataView(n, Undefined)>>) : n \in 0..MaxCategories}
                      \cup {Array(<<dv>>) : dv \in InvalidDataViews},
        viewport \in Viewports }

HoverUpdate == \E options \in HoverOptions : update(options)

HoverNext == VisualInit \/ HoverUpdate \/ MouseMove \/ MouseOut

SpecHover == Init /\ [][HoverNext]_vars

(***************************************************************************)
(* The properties of the builder.                                           *)
(***************************************************************************)
\* The groups of a valid dataset's value columns.
GroupsOf(dataView) == dataView.categorical.values.grouped

ColumnWithRole(group, roleName) ==
    \E i \in 1..Len(group.values) : group.values[i].role = roleName

\* Both measures are bound: every series group has a Low and a High column.
BothRolesPresent(dataView) ==
    /\ Len(GroupsOf(dataView)) > 0
    /\ \A g \in 1..Len(GroupsOf(dataView)) :
          /\ ColumnWithRole(GroupsOf(dataView)[g], "Low")
          /\ ColumnWithRole(GroupsOf(dataView)[g], "High")

\* No value column of any group carries the role.
RoleAbsent(dataView, roleName) ==
    \A g \in 1..Len(GroupsOf(dataView)) : ~ColumnWithRole(GroupsOf(dataView)[g], roleName)

\* The dataset has every section isDataViewValid asks for.
HasEverySection(dataView) ==
    /\ dataView.kind = "dataView"
    /\ dataView.categorical.kind = "categorical"
    /\ dataView.categorical.categories.kind = "array"
    /\ Len(dataView.categorical.categories.items) >= 1
    /\ dataView.metadata.kind = "metadata"
    /\ dataView.categorical.values.kind = "values"

CategoryCount(dataView) == Len(dataView.categorical.categories.items[1].values)

\* C1: for a structurally valid dataset with N category positions and both
\* measures bound, whatever the number of series groups, convertToViewModel
\* returns a view model of exactly N points, the point at position i having
\* categoryIndex i.
C1_OnePointPerCategory ==
    (cvResult # Pending /\ HasEverySection(cvInput) /\ BothRolesPresent(cvInput))
        => /\ cvResult.kind = "viewModel"
           /\ Len(cvResult.data) = CategoryCount(cvInput)
           /\ \A i \in 1..Len(cvResult.data) : cvResult.data[i].categoryIndex = i - 1

\* C2: when no value column carries the Low role, or none carries the High
\* role, convertToViewModel on an otherwise valid dataset returns a view model
\* with an empty data sequence and raises no error.
C2_MissingRoleGivesEmptyData ==
    (/\ cvResult # Pending
     /\ HasEverySection(cvInput)
     /\ (RoleAbsent(cvInput, "Low") \/ RoleAbsent(cvInput, "High")))
        => /\ cvResult.kind = "viewModel"
           /\ cvResult.data = <<>>

\* C2's case: a dataset of two categories and two series groups whose only
\* measure is Low has been converted.
C2_Witness ==
    /\ cvResult # Pending
    /\ HasEverySection(cvInput)
    /\ CategoryCount(cvInput) = 2
    /\ Len(GroupsOf(cvInput)) >= 1
    /\ ~RoleAbsent(cvInput, "Low")
    /\ RoleAbsent(cvInput, "High")
    /\ cvResult.kind = "viewModel"

(***************************************************************************)
(* The properties of update.                                                *)
(***************************************************************************)
\* The chart group has no child element.
ChartGroupEmpty == chartGroups = <<>> /\ hoverLines = <<>> /\ hoverCircles = <<>>

\* C3: when the dataset update receives is absent or structurally invalid, the
\* view model becomes null, the chart group is left without any child element
\* (no container, no hover line, no hover circle) and update returns normally.
C3_InvalidDatasetClearsPlot ==
    (/\ last.op = "update"
     /\ Truthy(last.options.dataViews)
     /\ ~HasEverySection(At(last.options.dataViews.items, 0)))
        => /\ last.outcome = "return"
           /\ ~Truthy(viewModel)
           /\ ChartGroupEmpty

\* C3's case: an invalid dataset arrived after an earlier update had drawn a
\* chart of at least one point and bound the hover handlers.
C3_Witness ==
    /\ last.op = "update"
    /\ Truthy(last.options.dataViews)
    /\ At(last.options.dataViews.items, 0) \in InvalidDataViews
    /\ Truthy(handler)
    /\ Len(handler.viewModel.data) > 0
    /\ ChartGroupEmpty

\* C4: update fails closed when options.dataViews is absent or an empty list:
\* it returns normally, raising nothing, and renders nothing.
C4_AbsentDataViewsFailClosed ==
    (/\ last.op = "update"
     /\ (~Truthy(last.options.dataViews) \/ last.options.dataViews.items = <<>>))
        => /\ last.outcome = "return"
           /\ container = Undefined

(***************************************************************************)
(* The geometry specification: init and update over every viewport around  *)
(* the margins.                                                             *)
(***************************************************************************)
MaxInset == 1   \* margin-adjusted dimensions: -MaxInset..MaxInset

GeometryViewports == { Viewport(w, h) : w \in -MaxInset..MaxInset, h \in -MaxInset..MaxInset }

GeometryOptions ==
    { Options(dataViews, viewport) :
        dataViews \in {Undefined, Array(<<>>), Array(<<ChartDataView(1, Undefined)>>)},
        viewport \in GeometryViewports }

GeometryInit == \E viewport \in GeometryViewports : init(viewport)

GeometryUpdate == \E options \in GeometryOptions : update(options)

GeometryNext == GeometryInit \/ GeometryUpdate

SpecGeometry == Init /\ [][GeometryNext]_vars

(***************************************************************************)
(* The properties of the settings and of their enumeration.                 *)
(***************************************************************************)
HasOverride(dataView, objectName, propertyName) ==
    /\ dataView.metadata.objects.kind = "objects"
    /\ objectName \in DOMAIN dataView.metadata.objects.map
    /\ propertyName \in DOMAIN dataView.metadata.objects.map[objectName]

OverrideOf(dataView, objectName, propertyName) ==
    dataView.metadata.objects.map[objectName][propertyName]

\* The outline and colour values a build of the dataset resolves: the
\* override of the property store, else the fixed default.
ResolvedOutline(dataView) ==
    [show |-> IF HasOverride(dataView, "outline", "show")
              THEN OverrideOf(dataView, "outline", "show") ELSE TRUE,
     size |-> IF HasOverride(dataView, "outline", "size")
              THEN OverrideOf(dataView, "outline", "size") ELSE 2]

ResolvedColors(dataView) ==
    [highColor |-> IF HasOverride(dataView, "colors", "highColor")
                   THEN OverrideOf(dataView, "colors", "highColor").solid.color
                   ELSE "Green",
     lowColor |-> IF HasOverride(dataView, "colors", "lowColor")
                  THEN OverrideOf(dataView, "colors", "lowColor").solid.color
                  ELSE "Red"]

\* C5: once the most recent build has produced a view model, enumerating
\* 'outline' returns exactly {show, size} and enumerating 'colors' exactly
\* {highColor, lowColor} as that build resolved them: the override of the
\* property store if present, else the default (true, 2, Green, Red); also when
\* that update skipped rendering, and whatever earlier updates had overridden.
C5_EnumerateReturnsResolvedSettings ==
    (last.op = "enumerateObjectInstances" /\ Truthy(viewModel))
        => /\ last.objectName = "outline"
                => /\ last.result.kind = "array"
                   /\ Len(last.result.items) = 1
                   /\ last.result.items[1].properties = ResolvedOutline(lastBuild)
           /\ last.objectName = "colors"
                => /\ last.result.kind = "array"
                   /\ Len(last.result.items) = 1
                   /\ last.result.items[1].properties = ResolvedColors(lastBuild)

\* C5's case: the colours are enumerated after an update that skipped
\* rendering and overrode no colour, while the container an earlier update
\* drew is still filled with an overridden colour.
C5_Witness ==
    /\ last.op = "enumerateObjectInstances"
    /\ last.objectName = "colors"
    /\ Truthy(viewModel)
    /\ skipped
    /\ ~HasOverride(lastBuild, "colors", "lowColor")
    /\ HasOverride(lastBuild, "outline", "show")
    /\ Truthy(container)
    /\ \E i \in 1..Len(container.children) : container.children[i].fill = Str("Orange")

\* C6: enumerateObjectInstances returns nothing for a name that is neither
\* 'outline' nor 'colors', and nothing for any name while no view model exists
\* (no update has completed yet, or the most recent one carried an absent or
\* invalid dataset); otherwise it returns exactly one instance descriptor.
C6_EnumerateOneInstanceOrNothing ==
    last.op = "enumerateObjectInstances"
        => IF last.objectName \in {"outline", "colors"} /\ HasEverySection(lastBuild)
           THEN /\ last.result.kind = "array"
                /\ Len(last.result.items) = 1
                /\ last.result.items[1].objectName = last.objectName
           ELSE last.result = Undefined

\* C6's case: 'outline' is enumerated after an invalid dataset has replaced a
\* view model that an earlier update had built and rendered.
C6_Witness ==
    /\ last.op = "enumerateObjectInstances"
    /\ last.objectName = "outline"
    /\ lastBuild \in InvalidDataViews
    /\ Truthy(handler)
    /\ last.result = Undefined

(***************************************************************************)
(* The properties of the geometry and of rendering.                         *)
(***************************************************************************)
\* The call reached geometry.init or geometry.update.
GeometryCalled ==
    \/ last.op = "init"
    \/ last.op = "update" /\ Truthy(last.options.dataViews)

PassedViewport == IF last.op = "init" THEN last.viewport ELSE last.options.viewport

\* The viewport less the margins, written out.
Inset(viewport) ==
    [width |-> viewport.width - MarginLeft - MarginRight,
     height |-> viewport.height - MarginTop - MarginBottom]

\* C7: the margin-adjusted viewport is (width - left - right, height - top -
\* bottom) of the viewport most recently passed to the geometry's init or
\* update, and isValid() is true exactly when both adjusted dimensions are
\* strictly greater than zero.
C7_GeometryInsetAndValidity ==
    GeometryCalled
        => /\ getViewport(viewportNoMargins) = Inset(PassedViewport)
           /\ isValid(viewportNoMargins)
                <=> (Inset(PassedViewport).width > 0 /\ Inset(PassedViewport).height > 0)

\* C7's case: an update has passed a viewport whose adjusted width is exactly
\* zero and whose adjusted height is positive.
C7_Witness ==
    /\ last.op = "update"
    /\ Truthy(last.options.dataViews)
    /\ last.options.viewport = Viewport(0, 1)
    /\ viewportNoMargins = Viewport(0, 1)
    /\ ~isValid(viewportNoMargins)

\* The handlers bound to the overlay, whichever view model is current.
RegisteredHandlers == IF Truthy(handler) THEN [handler EXCEPT !.current = TRUE] ELSE handler

\* C8: an update whose margin-adjusted viewport is not valid mutates nothing
\* of the DOM, whatever dataset it carries: the svg size, the overlay, the
\* children of the chart group and the bound hover handlers stay as they were.
C8_NoSpaceLeavesDomAlone ==
    [][(last'.op = "update" /\ ~(Inset(last'.options.viewport).width > 0
                                 /\ Inset(last'.options.viewport).height > 0))
        => /\ svgAttr' = svgAttr
           /\ overlayAttr' = overlayAttr
           /\ chartGroups' = chartGroups
           /\ hoverLines' = hoverLines
           /\ hoverCircles' = hoverCircles
           /\ RegisteredHandlers' = RegisteredHandlers]_vars

ChildrenWith(attribute, value) ==
    {i \in 1..Len(container.children) : container.children[i][attribute] = Str(value)}

\* C9: after an update with a valid margin-adjusted viewport and a dataset
\* that builds a view model, the svg has the size of that update's viewport,
\* the overlay its margin-adjusted size, and the chart group holds no
\* container for an empty data sequence and else one container bound to the
\* data, whose clip paths, areas and visible outlines are all drawn from that
\* data and viewport; however many updates were skipped before.
C9_RenderingReflectsLatestUpdate ==
    (/\ last.op = "update"
     /\ last.outcome = "return"
     /\ Inset(last.options.viewport).width > 0
     /\ Inset(last.options.viewport).height > 0
     /\ Truthy(viewModel))
        => LET inner == Inset(last.options.viewport)
               data == viewModel.data
               Drawn(shape) == PathData(shape, data, inner)
           IN  /\ svgAttr = Size(last.options.viewport.width, last.options.viewport.height)
               /\ overlayAttr = Size(inner.width, inner.height)
               /\ IF data = <<>> THEN chartGroups = <<>>
                  ELSE /\ Len(chartGroups) = 1
                       /\ container.kind = "g"
                       /\ container.data = data
                       /\ \E i \in ChildrenWith("id", "clip-below-" \o uniqueVisualId) :
                             container.children[i].paths = <<Drawn("areaBelowLowLine")>>
                       /\ \E i \in ChildrenWith("id", "clip-above-" \o uniqueVisualId) :
                             container.children[i].paths = <<Drawn("areaAboveLowLine")>>
                       /\ \E i \in ChildrenWith("class", "area-above") :
                             container.children[i].d = Drawn("areaBetweenHighAndLow")
                       /\ \E i \in ChildrenWith("class", "area-below") :
                             container.children[i].d = Drawn("areaBetweenHighAndLow")
                       /\ \A i \in 1..Len(container.children) :
                             /\ container.children[i].d.kind = "d"
                                    => \/ container.children[i].d.data = data
                                          /\ container.children[i].d.width = inner.width
                                          /\ container.children[i].d.height = inner.height
                                       \/ container.children[i].opacity = Str(AlmostZero)
                             /\ \A j \in 1..Len(container.children[i].paths) :
                                    container.children[i].paths[j].data = data

\* C9's case: an update renders two points right after an update that was
\* skipped for want of space.
C9_Witness ==
    /\ last.op = "update"
    /\ last.outcome = "return"
    /\ last.afterSkip
    /\ isValid(last.options.viewport)
    /\ Truthy(viewModel)
    /\ Len(viewModel.data) = 2
    /\ Truthy(container)

(***************************************************************************)
(* The properties of the hover handlers.                                    *)
(***************************************************************************)
\* The integer nearest to (n - 1) * coordinateX / (ratiosX * width), halves
\* going up: the k with k - 1/2 <= that position < k + 1/2.
NearestIndex(coordinateX, ratiosX, n, width) ==
    CHOOSE k \in (-4 * (MaxCategories + 1))..(4 * (MaxCategories + 1)) :
        /\ (2 * k - 1) * ratiosX * width <= 2 * (n - 1) * coordinateX
        /\ 2 * (n - 1) * coordinateX < (2 * k + 1) * ratiosX * width

\* C10: for the handler's N points and x scale of domain [0, N-1], the point
\* a pointer x resolves to is the one at index round(inverse-x-scale(x)); when
\* that index is outside [0, N-1], which it always is for N = 0, no point is
\* found and the tooltip delegate returns no payload; for N = 1 every
\* coordinate resolves to index 0.
C10_HoverLookup ==
    last.op = "mousemove"
        => LET data == handler.viewModel.data
               n == Len(data)
               k == NearestIndex(last.coordinateX, last.ratiosX, n, handler.width)
           IN  /\ last.closest = (IF k \in 0..(n - 1) THEN data[k + 1] ELSE Undefined)
               /\ k \notin 0..(n - 1)
                    => last.outcome = "return" /\ last.result = Undefined
               /\ n = 0 => last.closest = Undefined
               /\ n = 1 => last.closest = data[1]

\* C10's case: a pointer-move right of the overlay over a chart of one point
\* has found that point.
C10_Witness ==
    /\ last.op = "mousemove"
    /\ Len(handler.viewModel.data) = 1
    /\ last.coordinateX > handler.width
    /\ last.closest = handler.viewModel.data[1]
    /\ last.outcome = "return"

\* C11: whenever a pointer-move resolves to no data point, after the handler
\* returns the tooltip request has no payload, no hover circle exists and no
\* hover line is visible, also when an earlier pointer-move had drawn them.
C11_NoPointSuppressesHover ==
    (last.op = "mousemove" /\ ~Truthy(last.closest))
        => /\ last.outcome = "return"
           /\ last.result = Undefined
           /\ hoverCircles = <<>>
           /\ Truthy(hoverLine) => hoverLine.opacity = Str(AlmostZero)

(***************************************************************************)
(* The defaults of parseToDataPoints.                                       *)
(***************************************************************************)
\* The measure at an index of a series group is absent, or has no value array.
MeasureAbsent(group, index) ==
    LET measure == At(group.values, index)
    IN  IF Truthy(measure) THEN ~Truthy(measure.values) ELSE TRUE

\* The number of points the series groups before group g have emitted.
RECURSIVE PointsBefore(_, _)
PointsBefore(dataView, g) ==
    IF g <= 1 THEN 0
    ELSE PointsBefore(dataView, g - 1)
             + Len(dataView.categorical.categories.items[g - 1].values)

\* C12: when the Low or the High measure, or its value array, is absent in a
\* series group, parseToDataPoints raises no error and every point it emits
\* for that group has 0 as its low, respectively high, value; the same for
\* either measure.
C12_AbsentMeasureDefaultsToZero ==
    (/\ cvResult # Pending
     /\ HasEverySection(cvInput)
     /\ getMeasureIndexOfRole(GroupsOf(cvInput), "Low") >= 0
     /\ getMeasureIndexOfRole(GroupsOf(cvInput), "High") >= 0
     /\ Len(cvInput.categorical.categories.items) >= Len(GroupsOf(cvInput)))
        => LET lowMeasureIndex == getMeasureIndexOfRole(GroupsOf(cvInput), "Low")
               highMeasureIndex == getMeasureIndexOfRole(GroupsOf(cvInput), "High")
           IN  /\ cvResult.kind = "viewModel"
               /\ \A g \in 1..Len(GroupsOf(cvInput)) :
                     \A i \in 1..Len(cvInput.categorical.categories.items[g].values) :
                        LET point == cvResult.data[PointsBefore(cvInput, g) + i]
                        IN  /\ MeasureAbsent(GroupsOf(cvInput)[g], lowMeasureIndex)
                                => point.low = Num(0)
                            /\ MeasureAbsent(GroupsOf(cvInput)[g], highMeasureIndex)
                                => point.high = Num(0)

(***************************************************************************)
(* The properties of the container's children.                             *)
(***************************************************************************)
\* The last call was an update that rendered a non-empty data sequence.
RenderedPoints ==
    /\ last.op = "update"
    /\ last.outcome = "return"
    /\ Inset(last.options.viewport).width > 0
    /\ Inset(last.options.viewport).height > 0
    /\ Truthy(viewModel)
    /\ Len(viewModel.data) > 0

\* C13: after a rendered update of a non-empty data sequence with outline
\* enabled, the container holds a low-outline path and a high-outline path,
\* both with opacity 1, the resolved outline size as stroke width and the low,
\* respectively high, colour as stroke; whatever the updates before it were.
C13_EnabledOutlineIsDrawn ==
    (RenderedPoints /\ viewModel.settings.outline.showOutline)
        => /\ Truthy(container)
           /\ \E i \in ChildrenWith("class", "outline-low") :
                 /\ container.children[i].tag = "path"
                 /\ container.children[i].opacity = Str("1")
                 /\ container.children[i].strokeWidth = Num(viewModel.settings.outline.size)
                 /\ container.children[i].stroke = Str(viewModel.settings.colors.lowColor)
           /\ \E i \in ChildrenWith("class", "outline-high") :
                 /\ container.children[i].tag = "path"
                 /\ container.children[i].opacity = Str("1")
                 /\ container.children[i].strokeWidth = Num(viewModel.settings.outline.size)
                 /\ container.children[i].stroke = Str(viewModel.settings.colors.highColor)

\* The path children of the container that are not one of the two areas: the
\* paths renderPlotArea draws, or hides, as outlines.
OutlinePaths ==
    {i \in 1..Len(container.children) :
        /\ container.children[i].tag = "path"
        /\ container.children[i].class \notin {Str("area-above"), Str("area-below")}}

\* C14: after a rendered update of a non-empty data sequence with outline
\* disabled, the container still holds its two outline paths, both with
\* opacity AlmostZero, and no further path however many updates went before;
\* the two area paths are there with the resolved high and low fill colours.
C14_DisabledOutlineIsHidden ==
    (RenderedPoints /\ ~viewModel.settings.outline.showOutline)
        => /\ Truthy(container)
           /\ Cardinality(OutlinePaths) = 2
           /\ \A i \in OutlinePaths : container.children[i].opacity = Str(AlmostZero)
           /\ Cardinality({i \in 1..Len(container.children) :
                              container.children[i].tag = "path"}) = 4
           /\ Cardinality(ChildrenWith("class", "area-above")) = 1
           /\ Cardinality(ChildrenWith("class", "area-below")) = 1
           /\ \A i \in ChildrenWith("class", "area-above") :
                 /\ container.children[i].tag = "path"
                 /\ container.children[i].fill = Str(viewModel.settings.colors.highColor)
           /\ \A i \in ChildrenWith("class", "area-below") :
                 /\ container.children[i].tag = "path"
                 /\ container.children[i].fill = Str(viewModel.settings.colors.lowColor)

\* C14's case: an update with outline disabled has rendered into a container
\* whose outlines an earlier update had drawn.
C14_Witness ==
    /\ RenderedPoints
    /\ ~viewModel.settings.outline.showOutline
    /\ Truthy(container)
    /\ ChildrenWith("class", "outline-low") # {}
    /\ ChildrenWith("class", "outline-high") # {}
    /\ \A i \in OutlinePaths : container.children[i].opacity = Str(AlmostZero)

\* The view model the dataset of an update call builds.
BuiltBy(call) ==
    IF Truthy(call.options.dataViews)
    THEN convertToViewModel(At(call.options.dataViews.items, 0))
    ELSE Undefined

\* C15: an update with a valid margin-adjusted viewport whose dataset builds
\* a view model returns normally and leaves at most one container in the
\* chart group: none when the data sequence is empty, and else exactly one,
\* bound to the whole data sequence; a container that was there before is the
\* one that stays, with the child elements it had and no other.
C15_OneContainerReused ==
    [][(/\ last'.op = "update"
        /\ Inset(last'.options.viewport).width > 0
        /\ Inset(last'.options.viewport).height > 0
        /\ BuiltBy(last').kind = "viewModel")
        => /\ last'.outcome = "return"
           /\ viewModel' = BuiltBy(last')
           /\ Len(chartGroups') <= 1
           /\ IF viewModel'.data = <<>> THEN chartGroups' = <<>>
              ELSE /\ Len(chartGroups') = 1
                   /\ chartGroups'[1].kind = "g"
                   /\ chartGroups'[1].data = viewModel'.data
                   /\ chartGroups # <<>>
                        => /\ Len(chartGroups'[1].children) = Len(chartGroups[1].children)
                           /\ \A i \in 1..Len(chartGroups[1].children) :
                                 /\ chartGroups'[1].children[i].tag
                                        = chartGroups[1].children[i].tag
                                 /\ chartGroups'[1].children[i].id
                                        = chartGroups[1].children[i].id
                                 /\ chartGroups'[1].children[i].class
                                        = chartGroups[1].children[i].class]_vars

\* C15's case: an update has rendered two points, with outline enabled, into
\* the container an earlier update had created with outline disabled.
C15_Witness ==
    /\ RenderedPoints
    /\ Len(viewModel.data) = 2
    /\ viewModel.settings.outline.showOutline
    /\ Len(chartGroups) = 1
    /\ chartGroups[1].data = viewModel.data
    /\ \E i \in OutlinePaths : container.children[i].class = Undefined

(***************************************************************************)
(* The properties of the hover elements.                                    *)
(***************************************************************************)
\* C16: a pointer-leave removes every hover circle and keeps every hover
\* line, with opacity AlmostZero; a pointer-move that finds a point while a
\* hover line exists keeps that line and sets its opacity to 1; and the chart
\* never holds more than one hover line or more than two hover circles.
C16_PointerLeaveHidesHover ==
    [][/\ last'.op = "mouseout"
            => /\ hoverCircles' = <<>>
               /\ Len(hoverLines') = Len(hoverLines)
               /\ \A i \in 1..Len(hoverLines') :
                     /\ hoverLines'[i].opacity = Str(AlmostZero)
                     /\ hoverLines'[i].class = hoverLines[i].class
       /\ (last'.op = "mousemove" /\ Truthy(last'.closest) /\ hoverLines # <<>>)
            => /\ last'.outcome = "return"
               /\ Len(hoverLines') = Len(hoverLines)
               /\ \A i \in 1..Len(hoverLines') :
                     /\ hoverLines'[i].opacity = Str("1")
                     /\ hoverLines'[i].class = hoverLines[i].class
       /\ Len(hoverLines') <= 1
       /\ Len(hoverCircles') <= 2]_vars

\* C16's case: a pointer-leave has hidden the hover line an earlier
\* pointer-move had drawn.
C16_Witness ==
    /\ last.op = "mouseout"
    /\ Len(hoverLines) = 1
    /\ hoverLine.opacity = Str(AlmostZero)
    /\ hoverCircles = <<>>

\* C17: whenever the pointer-move handler bound to the overlay has run, the
\* view model it captured is the component's current view model, so it has
\* read no undefined view model, has looked its point up in the current data
\* sequence and, when it found a point, has drawn the hover line at an index
\* within [0, N-1] of the current data; whatever updates went before.
C17_HandlersUseCurrentViewModel ==
    last.op = "mousemove"
        => /\ last.outcome = "return"
           /\ Truthy(viewModel)
           /\ handler.current
           /\ handler.viewModel = viewModel
           /\ Truthy(last.closest)
                => /\ Len(hoverLines) = 1
                   /\ hoverLine.drawAtX \in 0..(Len(viewModel.data) - 1)

\* The clipPath children of the container.
ClipPaths == {i \in 1..Len(container.children) : container.children[i].tag = "clipPath"}

\* C18: after a rendered update of a non-empty data sequence the container
\* holds exactly two clipPath elements, with the ids clip-below- and
\* clip-above- followed by the visual's unique id, and each of them has
\* exactly one path child, drawn from the current data and viewport: the
\* paths of earlier renders are gone.
C18_ClipPathsHoldOnePath ==
    RenderedPoints
        => LET inner == Inset(last.options.viewport)
           IN  /\ Len(chartGroups) = 1
               /\ Cardinality(ClipPaths) = 2
               /\ \E i \in ClipPaths :
                     /\ container.children[i].id = Str("clip-below-" \o uniqueVisualId)
                     /\ container.children[i].paths
                            = <<PathData("areaBelowLowLine", viewModel.data, inner)>>
               /\ \E i \in ClipPaths :
                     /\ container.children[i].id = Str("clip-above-" \o uniqueVisualId)
                     /\ container.children[i].paths
                            = <<PathData("areaAboveLowLine", viewModel.data, inner)>>

\* C18's case: an update has rendered one point with an outline of size 5
\* into the container an earlier update, with outline disabled, had created.
C18_Witness ==
    /\ RenderedPoints
    /\ Len(viewModel.data) = 1
    /\ viewModel.settings.outline.showOutline
    /\ viewModel.settings.outline.size = 5
    /\ \E i \in OutlinePaths : container.children[i].class = Undefined
    /\ \A i \in ClipPaths : Len(container.children[i].paths) = 1

====
